---- MODULE Spec2Model ----
(***************************************************************************)
(* The storefront of src/app/main.py and src/app/models.py: the session    *)
(* cart, the checkout that persists an Order with its OrderItems and       *)
(* optionally hands payment to Stripe, and the confirmation handler.       *)
(*                                                                         *)
(* Every route is an `async def` whose body makes only blocking calls, so  *)
(* a handler runs from its first line to its response without another      *)
(* handler of the process running in between: each handler is one action.  *)
(* What a handler leaves behind when one of its storage calls raises is    *)
(* modelled by the input `fault` of its action.                            *)
(***************************************************************************)
EXTENDS Integers, Sequences, FiniteSets, TLC

VARIABLES
    STRIPE_SECRET_KEY,  \* main.py:31  whether the payment adapter is configured
    products,           \* models.py:32 the products table: id -> [name, price]
    orders,             \* models.py:54 the committed orders rows, in id order
    order_items,        \* models.py:70 the committed order_items rows, in id order
    session,            \* main.py:40  request.session: a dict with optional keys
    stripe_calls,       \* main.py:297 the calls of stripe.checkout.Session.create
    stripe_sessions,    \* main.py:297 the Checkout Sessions Stripe has created
    response            \* what the most recent step returned, when that step was
                        \* a request to /checkout or /checkout/success

vars == <<STRIPE_SECRET_KEY, products, orders, order_items, session,
          stripe_calls, stripe_sessions, response>>

----------------------------------------------------------------------------
(* Bounds of the model. *)

\* add_to_cart is not taken once the cart holds this many units (cart_count)
MaxCartCount == 2
\* checkout is not taken once this many orders are committed
MaxOrders == 1
\* bits of significand of the model's floating-point numbers (Python: 53)
MantBits == 2

\* ids of seeded products (seed_products inserts ids 1..12)
ProductIds == {3, 12}
\* ids a request can name that were never seeded
UnknownIds == {13}
\* prices a product can have, in units of the smallest price step
Prices == {3, 6}
\* the products whose price is changed, and those that are deleted, outside
\* the workflow
RepricedIds == {3}
DeletedIds == {12}
\* the prices the products are seeded with
SeedPrice == [pid \in ProductIds |-> IF pid = 3 THEN 3 ELSE 6]
\* the names the products are seeded with (seed_data[2], seed_data[11])
SeedName == [pid \in ProductIds |-> IF pid = 3 THEN "Wireless Headphones" ELSE "Study Chair"]

----------------------------------------------------------------------------
(* Python values. *)

RECURSIVE Pow2(_)
Pow2(n) == IF n = 0 THEN 1 ELSE 2 * Pow2(n - 1)

\* the spacing of floats around the non-negative value x
RECURSIVE Ulp(_, _)
Ulp(x, u) == IF x \div u < Pow2(MantBits) THEN u ELSE Ulp(x, 2 * u)

\* the float nearest to the exact value x, ties to even
RoundFloat(x) ==
    LET u == Ulp(x, 1)
        q == x \div u
        r == x % u
    IN  IF 2 * r < u THEN q * u
        ELSE IF 2 * r > u THEN (q + 1) * u
        ELSE IF q % 2 = 0 THEN q * u ELSE (q + 1) * u

\* float * int and float + float
FMul(a, b) == RoundFloat(a * b)
FAdd(a, b) == RoundFloat(a + b)

\* str(n) for n >= 0: the decimal digits
RECURSIVE Str(_)
Str(n) == IF n < 10 THEN <<n>> ELSE Append(Str(n \div 10), n % 10)

\* int(s) of a digit string
RECURSIVE ParseInt(_)
ParseInt(s) ==
    IF Len(s) = 0 THEN 0
    ELSE 10 * ParseInt(SubSeq(s, 1, Len(s) - 1)) + s[Len(s)]

\* a dict with insertion order: a sequence of [key, value] with distinct keys
DictHas(d, k) == \E i \in 1..Len(d) : d[i].key = k

DictGet(d, k, default) ==
    IF DictHas(d, k)
    THEN d[CHOOSE i \in 1..Len(d) : d[i].key = k].value
    ELSE default

\* d[k] = v: an existing key keeps its place, a new key goes last
DictSet(d, k, v) ==
    IF DictHas(d, k)
    THEN [i \in 1..Len(d) |-> IF d[i].key = k THEN [key |-> k, value |-> v] ELSE d[i]]
    ELSE Append(d, [key |-> k, value |-> v])

\* _get_cart_count: sum(cart.values())
RECURSIVE CartCount(_)
CartCount(cart) ==
    IF Len(cart) = 0 THEN 0
    ELSE CartCount(SubSeq(cart, 1, Len(cart) - 1)) + cart[Len(cart)].value

\* faulty variant of AddedCart: cart[key] = 1
AddedCart_Reset(cart, key) == DictSet(cart, key, 1)

\* cart[key] = cart.get(key, 0) + 1
AddedCart(cart, key) == DictSet(cart, key, DictGet(cart, key, 0) + 1)

\* faulty variant of EmptyCart: `cart is None`, which session.get("cart", {}) never is
EmptyCart_IsNone(cart) == FALSE

\* `not cart`: a dict is falsy exactly when it has no key
EmptyCart(cart) == Len(cart) = 0

\* session.get(name, default)
SessionGet(s, name, default) == IF name \in DOMAIN s THEN s[name] ELSE default

\* session[name] = value
SessionSet(s, name, value) ==
    [n \in DOMAIN s \cup {name} |-> IF n = name THEN value ELSE s[n]]

----------------------------------------------------------------------------
(* Responses. *)

\* the most recent step was no request to /checkout or /checkout/success
NoRequest == [route |-> "", kind |-> "none"]
RedirectResponse(route, url) == [route |-> route, kind |-> "redirect", url |-> url]
TemplateResponse(route, template, items, subtotal) ==
    [route |-> route, kind |-> "page", template |-> template, items |-> items,
     subtotal |-> subtotal]
\* unhandled_exception_handler: the 500 page; `at` is the call that raised,
\* which logger.exception writes to the log
ErrorResponse(route, at) == [route |-> route, kind |-> "error", at |-> at]

ShopUrl(path) == [site |-> "shop", path |-> path, n |-> 0]
\* checkout_session.url of the n-th session Stripe created
StripeUrl(n) == [site |-> "stripe", path |-> "/pay", n |-> n]

----------------------------------------------------------------------------
(* Storage. *)

NoRows == [orders |-> <<>>, order_items |-> <<>>]

\* db.commit(): the rows written in the transaction become durable
Commit(durable, pending) ==
    [orders |-> durable.orders \o pending.orders,
     order_items |-> durable.order_items \o pending.order_items]

\* faulty variant of SessionClose: the block commits on exit instead of closing
SessionClose_Commits(durable, pending) == Commit(durable, pending)

\* get_session(): leaving the `with` block closes the Session, which rolls
\* back whatever the transaction wrote and did not commit
SessionClose(durable, pending) == durable

Durable == [orders |-> orders, order_items |-> order_items]

----------------------------------------------------------------------------
(* What checkout computes from the cart (main.py:192-272). *)

\* product_ids = [int(pid) for pid in cart.keys()]
ProductIdsOf(cart) == {ParseInt(cart[i].key) : i \in 1..Len(cart)}

\* product_map: the products the batch query returns for product_ids
ProductMap(cart) ==
    [pid \in ProductIdsOf(cart) \cap DOMAIN products |-> products[pid]]

\* the cart entries the loops do not `continue` past, in cart order
Resolved(cart, product_map) ==
    SelectSeq(cart, LAMBDA e : ParseInt(e.key) \in DOMAIN product_map)

\* faulty variant of Lines: line_total = product.price, the quantity forgotten
Lines_PriceAsTotal(cart, product_map) ==
    LET r == Resolved(cart, product_map)
    IN  [i \in 1..Len(r) |->
            LET product == product_map[ParseInt(r[i].key)]
            IN  [product_id |-> ParseInt(r[i].key),
                 name       |-> product.name,
                 quantity   |-> r[i].value,
                 unit_price |-> product.price,
                 line_total |-> product.price]]

\* one record per resolved entry: what lines 214-232 and 265-272 compute
Lines(cart, product_map) ==
    LET r == Resolved(cart, product_map)
    IN  [i \in 1..Len(r) |->
            LET product == product_map[ParseInt(r[i].key)]
            IN  [product_id |-> ParseInt(r[i].key),
                 name       |-> product.name,
                 quantity   |-> r[i].value,
                 unit_price |-> product.price,
                 line_total |-> FMul(product.price, r[i].value)]]

\* faulty variant of Subtotal: subtotal = line_total, the last line overwriting the rest
Subtotal_Overwrite(lines) ==
    IF Len(lines) = 0 THEN 0 ELSE lines[Len(lines)].line_total

\* subtotal = 0.0; subtotal += line_total, in cart order
RECURSIVE Subtotal(_)
Subtotal(lines) ==
    IF Len(lines) = 0 THEN 0
    ELSE FAdd(Subtotal(SubSeq(lines, 1, Len(lines) - 1)), lines[Len(lines)].line_total)

\* order_items_for_session
ItemsForSession(lines) ==
    [i \in 1..Len(lines) |->
        [name       |-> lines[i].name,
         quantity   |-> lines[i].quantity,
         line_total |-> lines[i].line_total]]

\* stripe_line_items: filled only when the key is set
StripeLineItems(lines) ==
    IF STRIPE_SECRET_KEY
    THEN [i \in 1..Len(lines) |->
            [name        |-> lines[i].name,
             unit_amount |-> FMul(lines[i].unit_price, 100),
             quantity    |-> lines[i].quantity]]
    ELSE <<>>

\* faulty variant of OrderStatus: the two branches exchanged
OrderStatus_Swapped == IF STRIPE_SECRET_KEY THEN "paid" ELSE "pending"

\* order_status = "pending" if STRIPE_SECRET_KEY else "paid"
OrderStatus == IF STRIPE_SECRET_KEY THEN "pending" ELSE "paid"

\* the Order row: its id is the next rowid of the orders table
NewOrder(lines) ==
    [id           |-> Len(orders) + 1,
     total_amount |-> Subtotal(lines),
     status       |-> OrderStatus]

\* faulty variant of NewOrderItems: the loop stops one entry early
NewOrderItems_DropLast(order, lines) ==
    [i \in 1..(Len(lines) - 1) |->
        [id         |-> Len(order_items) + i,
         order_id   |-> order.id,
         product_id |-> lines[i].product_id,
         quantity   |-> lines[i].quantity,
         unit_price |-> lines[i].unit_price,
         line_total |-> lines[i].line_total]]

\* the OrderItem rows, one per resolved entry, in cart order
NewOrderItems(order, lines) ==
    [i \in 1..Len(lines) |->
        [id         |-> Len(order_items) + i,
         order_id   |-> order.id,
         product_id |-> lines[i].product_id,
         quantity   |-> lines[i].quantity,
         unit_price |-> lines[i].unit_price,
         line_total |-> lines[i].line_total]]

\* the storage call of checkout that raises between the insert of the Order
\* (db.flush(), 258) and the end of the transaction: none ("none"), or
\* db.commit() (275) after it has written the first k items ("commit")
CheckoutFaults == {"none", "commit"}

\* what the transaction has written when the call `fault` raises
PendingAt(fault, k, order, items) ==
    IF fault = "commit"
    THEN [orders |-> <<order>>, order_items |-> SubSeq(items, 1, k)]
    ELSE NoRows

\* the durable rows when the `with get_session()` block of checkout is left
StoreAfterCheckout(fault, k, order, items) ==
    IF fault = "none"
    THEN SessionClose(Commit(Durable, [orders |-> <<order>>, order_items |-> items]), NoRows)
    ELSE SessionClose(Durable, PendingAt(fault, k, order, items))

\* faulty variant of SessionAfterCheckout: the cart is not cleared
SessionAfterCheckout_KeepCart(order, lines) ==
    SessionSet(session, "last_order",
               [order_id |-> order.id,
                items    |-> ItemsForSession(lines),
                subtotal |-> Subtotal(lines)])

\* lines 279-287: stash the summary, then clear the cart
SessionAfterCheckout(order, lines) ==
    SessionSet(
        SessionSet(session, "last_order",
                   [order_id |-> order.id,
                    items    |-> ItemsForSession(lines),
                    subtotal |-> Subtotal(lines)]),
        "cart", <<>>)

\* faulty variant of StripeCalled: `and stripe_line_items` forgotten
StripeCalled_KeyOnly(lines) == STRIPE_SECRET_KEY

\* line 290: stripe.checkout.Session.create is called
StripeCalled(lines) == STRIPE_SECRET_KEY /\ Len(StripeLineItems(lines)) > 0

\* the arguments of stripe.checkout.Session.create
StripeRequest(order, lines) ==
    [order_id |-> Str(order.id), line_items |-> StripeLineItems(lines)]

\* faulty variant of CheckoutResponse: no `except`, the failure of Stripe surfaces
CheckoutResponse_Surfaces(lines, stripe_ok) ==
    IF StripeCalled(lines)
    THEN IF stripe_ok
         THEN RedirectResponse("/checkout", StripeUrl(Len(stripe_sessions) + 1))
         ELSE ErrorResponse("/checkout", "stripe")
    ELSE TemplateResponse("/checkout", "checkout_success.html",
                          ItemsForSession(lines), Subtotal(lines))

\* lines 290-320: what checkout returns once the session is updated.
\* stripe_ok: Session.create returns a session; otherwise it raises and the
\* `except Exception: pass` falls through to the local page
CheckoutResponse(lines, stripe_ok) ==
    IF StripeCalled(lines) /\ stripe_ok
    THEN RedirectResponse("/checkout", StripeUrl(Len(stripe_sessions) + 1))
    ELSE TemplateResponse("/checkout", "checkout_success.html",
                          ItemsForSession(lines), Subtotal(lines))

----------------------------------------------------------------------------
(* The state after create_app(): the schema exists, the products are       *)
(* seeded, no order has been placed and the browser holds no session.      *)

Init ==
    /\ STRIPE_SECRET_KEY \in BOOLEAN
    /\ products = [pid \in ProductIds |-> [name |-> SeedName[pid], price |-> SeedPrice[pid]]]
    /\ orders = <<>>
    /\ order_items = <<>>
    /\ session = <<>>
    /\ stripe_calls = <<>>
    /\ stripe_sessions = <<>>
    /\ response = NoRequest

----------------------------------------------------------------------------
(* The handlers. *)

\* POST /cart/add/{product_id}
add_to_cart(product_id) ==
    IF product_id \notin DOMAIN products
    THEN /\ response' = NoRequest
         /\ UNCHANGED <<STRIPE_SECRET_KEY, products, orders, order_items, session,
                        stripe_calls, stripe_sessions>>
    ELSE LET cart == SessionGet(session, "cart", <<>>)
         IN  /\ CartCount(cart) < MaxCartCount
             /\ session' = SessionSet(session, "cart", AddedCart(cart, Str(product_id)))
             /\ response' = NoRequest
             /\ UNCHANGED <<STRIPE_SECRET_KEY, products, orders, order_items,
                            stripe_calls, stripe_sessions>>

\* GET /cart: reads the session and the catalog and writes neither
view_cart ==
    /\ response' = NoRequest
    /\ UNCHANGED <<STRIPE_SECRET_KEY, products, orders, order_items, session,
                   stripe_calls, stripe_sessions>>

\* POST /cart/clear
clear_cart ==
    /\ session' = SessionSet(session, "cart", <<>>)
    /\ response' = NoRequest
    /\ UNCHANGED <<STRIPE_SECRET_KEY, products, orders, order_items,
                   stripe_calls, stripe_sessions>>

\* POST /checkout.  fault: the call that raises; k: the items db.commit()
\* has written when it raises; stripe_ok: whether Session.create returns
checkout(fault, k, stripe_ok) ==
    LET cart == SessionGet(session, "cart", <<>>)
    IN  IF EmptyCart(cart)
        THEN /\ response' = RedirectResponse("/checkout", ShopUrl("/cart"))
             /\ UNCHANGED <<STRIPE_SECRET_KEY, products, orders, order_items, session,
                            stripe_calls, stripe_sessions>>
        ELSE LET lines == Lines(cart, ProductMap(cart))
                 order == NewOrder(lines)
                 items == NewOrderItems(order, lines)
                 store == StoreAfterCheckout(fault, k, order, items)
             IN  /\ Len(orders) < MaxOrders
                 /\ k \in 0..Len(items)
                 /\ orders' = store.orders
                 /\ order_items' = store.order_items
                 /\ IF fault # "none"
                    THEN /\ response' = ErrorResponse("/checkout", fault)
                         /\ UNCHANGED <<session, stripe_calls, stripe_sessions>>
                    ELSE /\ session' = SessionAfterCheckout(order, lines)
                         /\ stripe_calls' =
                                IF StripeCalled(lines)
                                THEN Append(stripe_calls, StripeRequest(order, lines))
                                ELSE stripe_calls
                         /\ stripe_sessions' =
                                IF StripeCalled(lines) /\ stripe_ok
                                THEN Append(stripe_sessions, StripeRequest(order, lines))
                                ELSE stripe_sessions
                         /\ response' = CheckoutResponse(lines, stripe_ok)
                 /\ UNCHANGED <<STRIPE_SECRET_KEY, products>>

\* faulty variant of MarkPaid: the status is flipped instead of set
MarkPaid_Toggle(rows, order_id) ==
    [i \in 1..Len(rows) |->
        IF rows[i].id = order_id
        THEN [rows[i] EXCEPT !.status = IF @ = "paid" THEN "pending" ELSE "paid"]
        ELSE rows[i]]

\* db.query(Order).get(order_id) followed by order.status = "paid"; db.commit()
MarkPaid(rows, order_id) ==
    [i \in 1..Len(rows) |->
        IF rows[i].id = order_id /\ rows[i].status # "paid"
        THEN [rows[i] EXCEPT !.status = "paid"]
        ELSE rows[i]]

\* GET /checkout/success
checkout_success ==
    IF "last_order" \notin DOMAIN session
    THEN /\ response' = RedirectResponse("/checkout/success", ShopUrl("/"))
         /\ UNCHANGED <<STRIPE_SECRET_KEY, products, orders, order_items, session,
                        stripe_calls, stripe_sessions>>
    ELSE LET last_order == session["last_order"]
         IN  /\ orders' = MarkPaid(orders, last_order.order_id)
             /\ response' = TemplateResponse("/checkout/success",
                                             "checkout_success.html",
                                             last_order.items, last_order.subtotal)
             /\ UNCHANGED <<STRIPE_SECRET_KEY, products, order_items, session,
                            stripe_calls, stripe_sessions>>

----------------------------------------------------------------------------
(* The catalog changes outside the workflow: the products table is an      *)
(* ordinary table of app.db, and no handler writes it.                     *)

\* UPDATE products SET price = ...
ProductPriceChanged(pid, price) ==
    /\ pid \in DOMAIN products
    /\ products[pid].price # price
    /\ products' = [products EXCEPT ![pid].price = price]
    /\ response' = NoRequest
    /\ UNCHANGED <<STRIPE_SECRET_KEY, orders, order_items, session,
                   stripe_calls, stripe_sessions>>

\* DELETE FROM products
ProductDeleted(pid) ==
    /\ pid \in DOMAIN products
    /\ products' = [p \in DOMAIN products \ {pid} |-> products[p]]
    /\ response' = NoRequest
    /\ UNCHANGED <<STRIPE_SECRET_KEY, orders, order_items, session,
                   stripe_calls, stripe_sessions>>

----------------------------------------------------------------------------

Next ==
    \/ \E product_id \in ProductIds \cup UnknownIds : add_to_cart(product_id)
    \/ view_cart
    \/ clear_cart
    \/ \E stripe_ok \in BOOLEAN : checkout("none", 0, stripe_ok)
    \/ \E k \in 0..Cardinality(ProductIds) : checkout("commit", k, FALSE)
    \/ checkout_success
    \/ \E pid \in RepricedIds, price \in Prices : ProductPriceChanged(pid, price)
    \/ \E pid \in DeletedIds : ProductDeleted(pid)

Spec == Init /\ [][Next]_vars

----------------------------------------------------------------------------
(* The properties checked of the workflow. *)

\* the session's cart, empty when the key is absent
CartOf(s) == IF "cart" \in DOMAIN s THEN s["cart"] ELSE <<>>

\* the entries of a cart whose id is in the catalog `catalog`, in cart order
ResolvingIn(cart, catalog) ==
    SelectSeq(cart, LAMBDA e : ParseInt(e.key) \in DOMAIN catalog)

\* the rows of `rows` that belong to order `order_id`, in id order
ItemsOfOrder(rows, order_id) == SelectSeq(rows, LAMBDA it : it.order_id = order_id)

\* the rows a step appended to a table
Appended(before, after) == SubSeq(after, Len(before) + 1, Len(after))

\* a call of checkout returned a response (it did not raise)
CheckoutReturned(r) == r.route = "/checkout" /\ r.kind \in {"redirect", "page"}

\* the float sum of the line totals of `rows`, added in id order
RECURSIVE FloatSum(_)
FloatSum(rows) ==
    IF Len(rows) = 0 THEN 0
    ELSE FAdd(FloatSum(SubSeq(rows, 1, Len(rows) - 1)), rows[Len(rows)].line_total)

\* the exact sum of the line totals of `rows`
RECURSIVE ExactSum(_)
ExactSum(rows) ==
    IF Len(rows) = 0 THEN 0
    ELSE ExactSum(SubSeq(rows, 1, Len(rows) - 1)) + rows[Len(rows)].line_total

\* C1: a call of checkout that returns, made with a non-empty cart, appends
\* exactly one Order and, for that Order, exactly one OrderItem per cart entry
\* whose id is in the catalog when the call is made, with that entry's product
\* id and quantity, in cart order; the rows that existed stay as they were; a
\* cart none of whose ids resolve yields an Order with no item and total 0.
C1_CheckoutAddsOneOrderMirroringCart ==
    [][ (CheckoutReturned(response') /\ Len(CartOf(session)) > 0)
        => LET resolving == ResolvingIn(CartOf(session), products)
               new       == Appended(order_items, order_items')
           IN  /\ Len(orders') = Len(orders) + 1
               /\ SubSeq(orders', 1, Len(orders)) = orders
               /\ Len(order_items') >= Len(order_items)
               /\ SubSeq(order_items', 1, Len(order_items)) = order_items
               /\ ItemsOfOrder(order_items', orders'[Len(orders')].id) = new
               /\ Len(new) = Len(resolving)
               /\ \A i \in 1..Len(new) :
                      /\ new[i].product_id = ParseInt(resolving[i].key)
                      /\ new[i].quantity = resolving[i].value
               /\ (Len(resolving) = 0 => orders'[Len(orders')].total_amount = 0)
      ]_vars

\* C1 witness: checkout has returned and left an Order with no OrderItem and
\* total 0, which only a cart of stale ids produces.
C1_Witness_AllStaleOrder ==
    /\ CheckoutReturned(response)
    /\ Len(orders) > 0
    /\ Len(ItemsOfOrder(order_items, orders[Len(orders)].id)) = 0
    /\ orders[Len(orders)].total_amount = 0

\* C2: in every reachable state the total_amount of every Order is the sum of
\* the line_total of its OrderItems (the float sum, taken in id order).
C2_TotalIsSumOfLineTotals ==
    \A i \in 1..Len(orders) :
        orders[i].total_amount = FloatSum(ItemsOfOrder(order_items, orders[i].id))

\* C2 witness: an Order of two items whose float total is not the exact sum
\* of its line totals.
C2_Witness_RoundedTotal ==
    \E i \in 1..Len(orders) :
        LET its == ItemsOfOrder(order_items, orders[i].id)
        IN  /\ Len(its) = 2
            /\ orders[i].total_amount # ExactSum(its)

\* C3: a call of checkout made with an absent or empty cart returns the
\* redirect to /cart and changes no Order, no OrderItem, no key of the session
\* and makes no call to Stripe.
C3_EmptyCartIsNoOp ==
    [][ (response'.route = "/checkout" /\ Len(CartOf(session)) = 0)
        => /\ response'.kind = "redirect"
           /\ response'.url = ShopUrl("/cart")
           /\ UNCHANGED <<orders, order_items, session, stripe_calls, stripe_sessions>>
      ]_vars

\* C3 witness: checkout has returned the redirect to /cart to a session that
\* has no cart key.
C3_Witness_RedirectedToCart ==
    /\ response.route = "/checkout"
    /\ response.kind = "redirect"
    /\ response.url = ShopUrl("/cart")
    /\ "cart" \notin DOMAIN session

\* C4: whenever checkout has returned, the session cart is empty.
C4_CartEmptyAfterCheckout ==
    CheckoutReturned(response) => Len(CartOf(session)) = 0

\* C4 witness: checkout has returned the local page after a call to Stripe
\* that failed, and the cart key holds the empty cart.
C4_Witness_ClearedAfterStripeFailure ==
    /\ CheckoutReturned(response)
    /\ response.kind = "page"
    /\ Len(stripe_calls) > Len(stripe_sessions)
    /\ "cart" \in DOMAIN session
    /\ Len(session["cart"]) = 0

\* C5: an Order is created pending when STRIPE_SECRET_KEY is set and paid
\* when it is not; when Stripe creates a session, checkout returns the
\* redirect to that session's url and the Order named in the session's
\* metadata is durable with status pending.
C5_InitialStatusAndRedirect ==
    [][ /\ \A i \in (Len(orders) + 1)..Len(orders') :
               orders'[i].status = IF STRIPE_SECRET_KEY THEN "pending" ELSE "paid"
        /\ Len(stripe_sessions') > Len(stripe_sessions)
           => /\ STRIPE_SECRET_KEY
              /\ response'.route = "/checkout"
              /\ response'.kind = "redirect"
              /\ response'.url = StripeUrl(Len(stripe_sessions'))
              /\ \E i \in 1..Len(orders') :
                     /\ orders'[i].id = ParseInt(stripe_sessions'[Len(stripe_sessions')].order_id)
                     /\ i > Len(orders)
                     /\ orders'[i].status = "pending"
      ]_vars

\* C5 witness: checkout has returned the redirect to Stripe and the Order it
\* created is pending.
C5_Witness_RedirectedToStripe ==
    /\ response.route = "/checkout"
    /\ response.kind = "redirect"
    /\ response.url.site = "stripe"
    /\ orders[Len(orders)].status = "pending"

\* C6: when checkout calls Stripe and the call fails, checkout returns the
\* local confirmation page, and the Order it created is durable with status
\* pending together with one OrderItem per resolving cart entry.
C6_StripeFailureFallsBack ==
    [][ (Len(stripe_calls') > Len(stripe_calls) /\ stripe_sessions' = stripe_sessions)
        => /\ response'.route = "/checkout"
           /\ response'.kind = "page"
           /\ response'.template = "checkout_success.html"
           /\ Len(orders') = Len(orders) + 1
           /\ orders'[Len(orders')].status = "pending"
           /\ Len(ItemsOfOrder(order_items', orders'[Len(orders')].id))
                  = Len(ResolvingIn(CartOf(session), products))
           /\ Len(ResolvingIn(CartOf(session), products)) > 0
      ]_vars

\* C6 witness: the most recent call of checkout called Stripe, the call
\* failed, the page was returned and the Order is pending with its items.
C6_Witness_PendingAfterFailure ==
    /\ response.route = "/checkout"
    /\ response.kind = "page"
    /\ Len(stripe_calls) = 1
    /\ Len(stripe_sessions) = 0
    /\ orders[Len(orders)].status = "pending"
    /\ Len(ItemsOfOrder(order_items, orders[Len(orders)].id)) > 0

\* C7: durable storage changes atomically: a call of checkout that raises
\* before its commit completes leaves orders and order_items as they were;
\* every Order that becomes durable does so together with one OrderItem per
\* cart entry that resolved; no OrderItem is durable without its Order.
C7_OrderAndItemsAtomic ==
    [][ /\ (response'.route = "/checkout" /\ response'.kind = "error"
                /\ response'.at = "commit")
           => (orders' = orders /\ order_items' = order_items)
        /\ \A i \in (Len(orders) + 1)..Len(orders') :
               Len(ItemsOfOrder(order_items', orders'[i].id))
                   = Len(ResolvingIn(CartOf(session), products))
        /\ \A j \in 1..Len(order_items') :
               \E i \in 1..Len(orders') : orders'[i].id = order_items'[j].order_id
      ]_vars

\* C7 witness: checkout raised in its commit, after the Order and at least
\* one item could have been written, and nothing is durable.
C7_Witness_RolledBack ==
    /\ response.route = "/checkout"
    /\ response.kind = "error"
    /\ response.at = "commit"
    /\ Len(ResolvingIn(CartOf(session), products)) > 0
    /\ Len(orders) = 0
    /\ Len(order_items) = 0

\* C8: the status of an Order changes only from pending to paid, so at most
\* once and never back; after the confirmation handler has rendered, the Order
\* of the last_order snapshot is paid; a call of the confirmation handler for
\* a snapshot whose Order is already paid changes no row.
C8_StatusOnlyPendingToPaid ==
    [][ /\ Len(orders') >= Len(orders)
        /\ \A i \in 1..Len(orders') : orders'[i].status \in {"pending", "paid"}
        /\ \A i \in 1..Len(orders) :
               orders'[i].status # orders[i].status
                   => (orders[i].status = "pending" /\ orders'[i].status = "paid")
        /\ (response'.route = "/checkout/success" /\ response'.kind = "page")
           => /\ \A i \in 1..Len(orders') :
                     orders'[i].id = session["last_order"].order_id
                         => orders'[i].status = "paid"
              /\ (\A i \in 1..Len(orders) :
                      orders[i].id = session["last_order"].order_id
                          => orders[i].status = "paid")
                 => orders' = orders
              /\ UNCHANGED <<order_items, session>>
      ]_vars

\* C8 witness: the confirmation handler has rendered and an Order that was
\* created pending is paid.
C8_Witness_PendingBecamePaid ==
    /\ response.route = "/checkout/success"
    /\ response.kind = "page"
    /\ STRIPE_SECRET_KEY
    /\ \E i \in 1..Len(orders) : orders[i].status = "paid"

\* C9: an OrderItem is created with line_total = unit_price * quantity (the
\* float product) and with unit_price the price its Product has when the
\* checkout that creates it is called; no step, a price change included,
\* changes or removes an OrderItem that exists.  So every OrderItem of every
\* reachable state has line_total = unit_price * quantity.
C9_ItemsAreFrozenSnapshots ==
    [][ /\ Len(order_items') >= Len(order_items)
        /\ \A j \in 1..Len(order_items) : order_items'[j] = order_items[j]
        /\ \A j \in (Len(order_items) + 1)..Len(order_items') :
               /\ order_items'[j].product_id \in DOMAIN products
               /\ order_items'[j].unit_price = products[order_items'[j].product_id].price
               /\ order_items'[j].line_total
                      = FMul(order_items'[j].unit_price, order_items'[j].quantity)
      ]_vars

\* C9 witness: an OrderItem of quantity 2 whose Product now has another price
\* than the item's unit_price.
C9_Witness_PriceChangedLater ==
    \E j \in 1..Len(order_items) :
        /\ order_items[j].quantity = 2
        /\ order_items[j].product_id \in DOMAIN products
        /\ products[order_items[j].product_id].price # order_items[j].unit_price

\* the quantity the cart of session s holds for product id pid, 0 if none
QtyOf(s, pid) ==
    LET cart == CartOf(s)
        at   == {i \in 1..Len(cart) : cart[i].key = Str(pid)}
    IN  IF at = {} THEN 0 ELSE cart[CHOOSE i \in at : TRUE].value

\* C10: every quantity in the session cart is a positive integer and no key
\* occurs twice; add with an id in the catalog raises that id's quantity by 1
\* and leaves every other quantity as it was; add with an id not in the
\* catalog leaves the session as it was.
C10_CartQuantitiesPositive ==
    [][ /\ LET cart == CartOf(session')
           IN  \A i \in 1..Len(cart) :
                   /\ cart[i].value \in Nat \ {0}
                   /\ \A j \in 1..Len(cart) : cart[j].key = cart[i].key => j = i
        /\ \A product_id \in ProductIds \cup UnknownIds :
               add_to_cart(product_id)
                   => IF product_id \in DOMAIN products
                      THEN /\ QtyOf(session', product_id) = QtyOf(session, product_id) + 1
                           /\ \A other \in (ProductIds \cup UnknownIds) \ {product_id} :
                                  QtyOf(session', other) = QtyOf(session, other)
                           /\ Len(CartOf(session')) <= Cardinality(ProductIds)
                      ELSE UNCHANGED session
      ]_vars

\* C10 witness: the cart holds a product with quantity 2, reached by adding
\* the same resolving id twice.
C10_Witness_TwoUnits ==
    /\ "cart" \in DOMAIN session
    /\ \E i \in 1..Len(session["cart"]) : session["cart"][i].value = 2

\* the ids of the Orders named by the metadata of the calls `calls`
OrderIdsOf(calls) == {ParseInt(calls[n].order_id) : n \in 1..Len(calls)}

\* C11: stripe.checkout.Session.create is called only by a call of checkout
\* with STRIPE_SECRET_KEY set and a cart of which at least one entry
\* resolved; when it has been called the Order it names and one OrderItem
\* per resolved entry are in durable storage, session.last_order names that
\* Order and the cart is empty; one call of checkout calls it at most once,
\* no two calls name the same Order, and no other handler calls it.
C11_StripeCalledOncePerCommittedCheckout ==
    [][ /\ \/ stripe_calls' = stripe_calls
           \/ /\ Len(stripe_calls') = Len(stripe_calls) + 1
              /\ SubSeq(stripe_calls', 1, Len(stripe_calls)) = stripe_calls
        /\ Len(stripe_calls') > Len(stripe_calls)
           => LET call == stripe_calls'[Len(stripe_calls')]
                  id   == ParseInt(call.order_id)
              IN  /\ STRIPE_SECRET_KEY
                  /\ CheckoutReturned(response')
                  /\ Len(ResolvingIn(CartOf(session), products)) > 0
                  /\ Len(call.line_items) = Len(ResolvingIn(CartOf(session), products))
                  /\ id \notin OrderIdsOf(stripe_calls)
                  /\ Len(orders') = Len(orders) + 1
                  /\ orders'[Len(orders')].id = id
                  /\ Len(Appended(order_items, order_items')) = Len(call.line_items)
                  /\ \A j \in Len(order_items) + 1..Len(order_items') :
                         order_items'[j].order_id = id
                  /\ "last_order" \in DOMAIN session'
                  /\ session'["last_order"].order_id = id
                  /\ "cart" \in DOMAIN session'
                  /\ Len(session'["cart"]) = 0
        /\ orders' = orders => stripe_calls' = stripe_calls
        /\ response'.kind = "error" => stripe_calls' = stripe_calls
      ]_vars

\* C11 witness: checkout has called Stripe once, the call failed, and the
\* Order the call names is stored with its items, is the one of
\* session.last_order, and the cart is empty.
C11_Witness_CalledAfterCommit ==
    /\ Len(stripe_calls) = 1
    /\ Len(stripe_sessions) = 0
    /\ CheckoutReturned(response)
    /\ \E i \in 1..Len(orders) :
           /\ orders[i].id = ParseInt(stripe_calls[1].order_id)
           /\ Len(ItemsOfOrder(order_items, orders[i].id)) = Len(stripe_calls[1].line_items)
           /\ Len(stripe_calls[1].line_items) > 0
           /\ "last_order" \in DOMAIN session
           /\ session["last_order"].order_id = orders[i].id
    /\ "cart" \in DOMAIN session
    /\ Len(session["cart"]) = 0

\* C12: an Order goes from pending to paid only if Stripe has returned a
\* checkout session (the redirect target) whose metadata names that same
\* Order; an Order whose call to Stripe failed or was skipped stays pending
\* whatever checkout_success is asked later.
C12_PaidOnlyAfterStripeSession ==
    [][ \A i \in 1..Len(orders) :
            (orders[i].status = "pending" /\ orders'[i].status = "paid")
                => orders[i].id \in OrderIdsOf(stripe_sessions)
      ]_vars

====
